---------------------------- MODULE Spec2Model ----------------------------
(***************************************************************************)
(* Model of the line-profile report builder of                             *)
(* component/python/analysis/line_profiler/bootstrap.py: show_json and     *)
(* show_func, with the Python helpers they rely on (sorted, string         *)
(* formatting, os.path.exists, linecache.getlines, inspect.getblock).      *)
(*                                                                         *)
(* Python values are encoded as follows.  A str is a TLA+ string.  A dict  *)
(* is a function whose domain is its set of keys.  A list is a sequence.   *)
(* A field that holds either an int or a str (the 'Hits' and 'Time'        *)
(* entries of a row) is a tagged record, PyInt(n) or PyStr(s).  A float    *)
(* that is a decimal m * 10^e is the record [m |-> m, e |-> e].            *)
(***************************************************************************)
EXTENDS Integers, Sequences, FiniteSets, TLC

VARIABLES stats, unit, disk, cache, pc, todo, retval, returned, builds,
          component, data, world, mpc, argv, locals, printed, ran

\* The state of main(): the script that runs, the CO_DATA of its
\* environment, what its external commands will answer, its position, the
\* parsed arguments, its other local variables, the lines printed and the
\* commands run so far.
mainVars == <<component, data, world, mpc, argv, locals, printed, ran>>

\* The state of show_json and of its callers.
showVars == <<stats, unit, disk, cache, pc, todo, retval, returned, builds>>

vars == <<stats, unit, disk, cache, pc, todo, retval, returned, builds,
          component, data, world, mpc, argv, locals, printed, ran>>

(***************************************************************************)
(* Bounds of the model.                                                    *)
(***************************************************************************)
\* Largest number of function keys in a stats mapping.
MaxFuncs == 2

\* Largest number of samples in the timings of one function.
MaxSamples == 2

\* Largest line number (of a sample, and of the first line of a function).
MaxLine == 2

\* Largest hit count of a sample.
MaxHits == 1

\* Largest cumulative time (in ticks) of a sample.
MaxTime == 1

\* Largest hit count and largest cumulative time of a sample of the
\* numeric specification.
MaxNumHits == 5

MaxNumTime == 2

\* Largest number of functions whose reports are built side by side.
MaxBuilds == 3

\* Largest number of space-separated tokens of CO_DATA.
MaxTokens == 3

\* Largest number of files of the cloned repository.
MaxFiles == 2

(***************************************************************************)
(* Python values.                                                          *)
(***************************************************************************)
PyInt(n) == [type |-> "int", val |-> n]

PyStr(s) == [type |-> "str", val |-> s]

\* ord(c) for the characters that occur in the file and function names.
Ord(c) ==
    CASE c = "-" -> 45
      [] c = "." -> 46
      [] c = "1" -> 49
      [] c = "<" -> 60
      [] c = ">" -> 62
      [] c = "a" -> 97
      [] c = "b" -> 98
      [] c = "f" -> 102
      [] c = "g" -> 103
      [] c = "h" -> 104
      [] c = "i" -> 105
      [] c = "n" -> 110
      [] c = "o" -> 111
      [] c = "p" -> 112
      [] c = "t" -> 116
      [] c = "u" -> 117
      [] c = "y" -> 121

Char(s, i) == SubSeq(s, i, i)

\* str.__lt__: comparison by code points, a proper prefix is smaller.
RECURSIVE StrLess(_, _)
StrLess(s, t) ==
    IF t = "" THEN FALSE
    ELSE IF s = "" THEN TRUE
    ELSE IF Char(s, 1) = Char(t, 1)
         THEN StrLess(SubSeq(s, 2, Len(s)), SubSeq(t, 2, Len(t)))
         ELSE Ord(Char(s, 1)) < Ord(Char(t, 1))

\* str.startswith
StartsWith(s, prefix) ==
    /\ Len(s) >= Len(prefix)
    /\ SubSeq(s, 1, Len(prefix)) = prefix

\* str.rstrip(c) for a single character c: all trailing c are removed.
RECURSIVE RStrip(_, _)
RStrip(s, c) ==
    IF s # "" /\ Char(s, Len(s)) = c
    THEN RStrip(SubSeq(s, 1, Len(s) - 1), c)
    ELSE s

Digit(d) ==
    CASE d = 0 -> "0" [] d = 1 -> "1" [] d = 2 -> "2" [] d = 3 -> "3"
      [] d = 4 -> "4" [] d = 5 -> "5" [] d = 6 -> "6" [] d = 7 -> "7"
      [] d = 8 -> "8" [] d = 9 -> "9"

\* '%s' % n (str(n)) for an int n >= 0.
RECURSIVE IntToStr(_)
IntToStr(n) ==
    IF n < 10 THEN Digit(n) ELSE IntToStr(n \div 10) \o Digit(n % 10)

RECURSIVE Repeat(_, _)
Repeat(s, n) == IF n <= 0 THEN "" ELSE s \o Repeat(s, n - 1)

\* Left padding with spaces to a minimum width (the 5 of '%5.1f').
PadLeft(s, width) == Repeat(" ", width - Len(s)) \o s

\* Variant of Fmt51: the tenths are cut off, not rounded.
Fmt51Truncated(num, den) ==
    LET tenth == (10 * num) \div den
    IN  PadLeft(IntToStr(tenth \div 10) \o "." \o Digit(tenth % 10), 5)

\* '%5.1f' % (num / den) for ints num >= 0, den > 0.  The quotient is
\* rounded to one decimal; a tie (quotient = (2j+1)/20) is an exactly
\* representable binary fraction whenever den < 20, and printf then rounds
\* half to even.
Fmt51(num, den) ==
    LET q     == (10 * num) \div den
        r     == (10 * num) % den
        tenth == IF 2 * r > den THEN q + 1
                 ELSE IF 2 * r < den THEN q
                 ELSE IF q % 2 = 0 THEN q ELSE q + 1
    IN  PadLeft(IntToStr(tenth \div 10) \o "." \o Digit(tenth % 10), 5)

\* '%g' % x for a decimal x = m * 10^e with 0 <= m < 10^6: six significant
\* digits, trailing zeros removed, scientific notation when the decimal
\* exponent is below -4 or at least 6.
FmtG(x) ==
    LET all  == IntToStr(x.m)
        ds   == RStrip(all, "0")
        X    == Len(all) - 1 + x.e
        absX == IF X < 0 THEN 0 - X ELSE X
        rest == SubSeq(ds, 2, Len(ds))
    IN  IF x.m = 0 THEN "0"
        ELSE IF X < -4 \/ X >= 6
        THEN Char(ds, 1) \o (IF rest = "" THEN "" ELSE "." \o rest)
             \o "e" \o (IF X < 0 THEN "-" ELSE "+")
             \o (IF absX < 10 THEN "0" ELSE "") \o IntToStr(absX)
        ELSE IF X < 0
        THEN "0." \o Repeat("0", absX - 1) \o ds
        ELSE IF Len(ds) <= X + 1
        THEN ds \o Repeat("0", X + 1 - Len(ds))
        ELSE SubSeq(ds, 1, X + 1) \o "." \o SubSeq(ds, X + 2, Len(ds))

\* total_time * unit, for an int total_time and a decimal unit.
TimesUnit(total_time, u) == [m |-> total_time * u.m, e |-> u.e]

(***************************************************************************)
(* The file system and the source text.                                    *)
(***************************************************************************)
\* File names of the function keys: a source file that may be on disk, and
\* the name of an interactive cell, which is never a file on disk.
Filenames == {"a.py", "<ipython-input-1>"}

\* Function names of the function keys.
FuncNames == {"f", "g"}

\* disk[fn] when there is no file of that name.
NoFile == <<"ENOENT">>

\* Source texts a file on disk may hold.  Every line ends with a newline.
SourceTexts ==
    { << "def f():\n", "    x = 1\n", "    return x\r\n", "y = 2\n" >>,
      << "y = 2\n", "def g():\n", "    # c\n", "\n" >> }

\* disk[fn] when there is a file of that name that cannot be read.
Unreadable == <<"EACCES">>

\* os.path.exists(filename)
Exists(d, filename) == d[filename] # NoFile

\* A line as the text-mode read of tokenize.open delivers it: the line
\* ending "\r\n" is translated to "\n".
Translate(line) ==
    IF Len(line) >= 2 /\ SubSeq(line, Len(line) - 1, Len(line)) = "\r\n"
    THEN SubSeq(line, 1, Len(line) - 2) \o "\n"
    ELSE line

\* The lines linecache.updatecache reads from the file: [] when there is
\* no such file or reading it fails (the OSError is caught there).
ReadLines(d, filename) ==
    IF d[filename] \in {NoFile, Unreadable} THEN << >>
    ELSE [i \in 1..Len(d[filename]) |-> Translate(d[filename][i])]

\* linecache.cache after lines 211-213: cleared when the file exists.  The
\* cache c maps a file name to its cached lines.
ClearCache(c, d, filename) == IF Exists(d, filename) THEN << >> ELSE c

\* linecache.getlines(filename) with the cache c: the cached lines, else
\* the lines read from the file.  Nothing in this program enters the
\* source of an interactive cell into the cache, so a cell name yields [].
GetLines(c, d, filename) ==
    IF filename \in DOMAIN c THEN c[filename] ELSE ReadLines(d, filename)

\* linecache.cache after linecache.getlines(filename): lines that were
\* read are entered, a failed read leaves no entry.
UpdateCache(c, d, filename) ==
    IF filename \in DOMAIN c \/ d[filename] \in {NoFile, Unreadable}
    THEN c
    ELSE (filename :> ReadLines(d, filename)) @@ c

\* all_lines[start_lineno-1:] for start_lineno >= 1.
SliceFrom(all_lines, start_lineno) ==
    SubSeq(all_lines, start_lineno, Len(all_lines))

RECURSIVE IndentOf(_)
\* Column of the first character of a line that is not a space.
IndentOf(line) ==
    IF line # "" /\ Char(line, 1) = " "
    THEN 1 + IndentOf(SubSeq(line, 2, Len(line)))
    ELSE 0

\* What the tokenizer sees first on a line: "NL" on a blank line, "COMMENT"
\* on a comment line, else the first token of a logical line ("def" or any
\* "other").  The source texts hold one logical line per physical line and
\* no decorator, class or lambda.
FirstToken(line) ==
    LET body == SubSeq(line, IndentOf(line) + 1, Len(line))
    IN  IF body = "" \/ Char(body, 1) = "\n" \/ Char(body, 1) = "\r" THEN "NL"
        ELSE IF Char(body, 1) = "#" THEN "COMMENT"
        ELSE IF StartsWith(body, "def ") THEN "def"
        ELSE "other"

\* inspect.BlockFinder(): its fields, with the tokenizer's indentation stack
\* (indents) and whether EndOfBlock or IndentationError was raised (stop).
\* body_col0 = -1 stands for None.
BlockFinderInit ==
    [indent |-> 0, started |-> FALSE, last |-> 1, body_col0 |-> -1,
     indents |-> <<0>>, stop |-> FALSE]

RECURSIVE PopTo(_, _)
\* The indentation stack after the DEDENT tokens down to column col.
PopTo(indents, col) ==
    IF Len(indents) > 1 /\ indents[Len(indents)] > col
    THEN PopTo(SubSeq(indents, 1, Len(indents) - 1), col)
    ELSE indents

\* BlockFinder.tokeneater over the tokens of the line in row `row`.
TokenEater(bf, line, row) ==
    LET tok     == FirstToken(line)
        col     == IndentOf(line)
        top     == bf.indents[Len(bf.indents)]
        popped  == PopTo(bf.indents, col)
        ndedent == Len(bf.indents) - Len(popped)
    IN  IF bf.stop \/ tok = "NL" THEN bf
        ELSE IF tok = "COMMENT"
        THEN IF bf.started /\ bf.body_col0 # -1 /\ col >= bf.body_col0
             THEN [bf EXCEPT !.last = row]
             ELSE bf
        ELSE IF col > top
        THEN \* INDENT, then the line, then NEWLINE
             IF bf.started
             THEN [bf EXCEPT !.indents = Append(bf.indents, col),
                             !.indent = bf.indent + 1,
                             !.body_col0 =
                                 IF bf.body_col0 = -1 THEN col ELSE bf.body_col0,
                             !.last = row]
             ELSE IF tok = "def"
             THEN [bf EXCEPT !.indents = Append(bf.indents, col),
                             !.started = TRUE, !.last = row]
             ELSE [bf EXCEPT !.indents = Append(bf.indents, col)]
        ELSE IF col < top /\ popped[Len(popped)] # col
        THEN \* IndentationError: unindent matches no outer level
             [bf EXCEPT !.stop = TRUE]
        ELSE \* ndedent DEDENT tokens (maybe none), the line, NEWLINE
             IF bf.started
             THEN IF (ndedent > 0 /\ bf.indent - ndedent <= 0)
                     \/ (ndedent = 0 /\ bf.indent = 0)
                  THEN [bf EXCEPT !.stop = TRUE]
                  ELSE [bf EXCEPT !.indents = popped,
                                  !.indent = bf.indent - ndedent,
                                  !.last = row]
             ELSE IF tok = "def"
             THEN [bf EXCEPT !.indents = popped, !.started = TRUE,
                             !.last = row]
             ELSE [bf EXCEPT !.indents = popped]

RECURSIVE EatLines(_, _, _)
EatLines(bf, lines, row) ==
    IF row > Len(lines) THEN bf
    ELSE EatLines(TokenEater(bf, lines[row], row), lines, row + 1)

\* inspect.getblock(lines): lines[:blockfinder.last]
GetBlock(lines) ==
    LET last == EatLines(BlockFinderInit, lines, 1).last
    IN  SubSeq(lines, 1, IF last < Len(lines) THEN last ELSE Len(lines))

(***************************************************************************)
(* show_func.  A sample is <<lineno, nhits, time>>, timings is a sequence  *)
(* of samples.                                                             *)
(***************************************************************************)
RECURSIVE TotalTimeOfHits(_)
\* Variant of TotalTime: the loop adds nhits instead of time.
TotalTimeOfHits(timings) ==
    IF timings = << >> THEN 0
    ELSE timings[1][2] + TotalTimeOfHits(Tail(timings))

RECURSIVE TotalTime(_)
\* total_time after the loop of lines 198-200.
TotalTime(timings) ==
    IF timings = << >> THEN 0
    ELSE timings[1][3] + TotalTime(Tail(timings))

\* linenos after the loop of lines 198-200.
Linenos(timings) == [i \in 1..Len(timings) |-> timings[i][1]]

SeqMax(s) == CHOOSE x \in {s[i] : i \in 1..Len(s)} :
                 \A j \in 1..Len(s) : s[j] <= x

SeqMin(s) == CHOOSE x \in {s[i] : i \in 1..Len(s)} :
                 \A j \in 1..Len(s) : x <= s[j]

Min2(a, b) == IF a <= b THEN a ELSE b

\* Variant of FakeLineCount: the start line is left out of the minimum.
FakeLineCountFromSamples(linenos, start_lineno) ==
    SeqMax(linenos) - SeqMin(linenos) + 1

\* nlines of line 218.
FakeLineCount(linenos, start_lineno) ==
    SeqMax(linenos) - Min2(SeqMin(linenos), start_lineno) + 1

\* Whether the source branch of line 208 is taken.
SourceAvailable(d, filename) ==
    Exists(d, filename) \/ StartsWith(filename, "<ipython-input-")

\* sublines of lines 208-219.
Sublines(c, d, filename, start_lineno, timings) ==
    IF SourceAvailable(d, filename)
    THEN GetBlock(SliceFrom(GetLines(ClearCache(c, d, filename), d, filename),
                            start_lineno))
    ELSE [i \in 1..FakeLineCount(Linenos(timings), start_lineno) |-> ""]

\* retval before the rows are added (lines 205-210).
Header(d, filename, start_lineno, func_name, total_time, u) ==
    IF SourceAvailable(d, filename)
    THEN ("Total time" :> (FmtG(TimesUnit(total_time, u)) \o " s"))
         @@ ("File" :> filename)
         @@ ("Function" :>
                (func_name \o " at line " \o IntToStr(start_lineno)))
    ELSE ("Total time" :> (FmtG(TimesUnit(total_time, u)) \o " s"))

\* Whether the loop of lines 221-223 divides by a zero nhits.
DividesByZero(timings) == \E i \in 1..Len(timings) : timings[i][2] = 0

\* Variant of Entry: the per-hit time is an integer quotient.
EntryIntDiv(sample, total_time) ==
    << PyInt(sample[2]), PyInt(sample[3]),
       Fmt51(sample[3] \div sample[2], 1),
       Fmt51(100 * sample[3], total_time) >>

\* Variant of Entry: a sample of zero time stores no per-hit text.
EntryBlankPerHit(sample, total_time) ==
    << PyInt(sample[2]), PyInt(sample[3]),
       IF sample[3] = 0 THEN "" ELSE Fmt51(sample[3], sample[2]),
       Fmt51(100 * sample[3], total_time) >>

\* The tuple stored for one sample at lines 222-223.
Entry(sample, total_time) ==
    << PyInt(sample[2]), PyInt(sample[3]),
       Fmt51(sample[3], sample[2]), Fmt51(100 * sample[3], total_time) >>

\* Variant of LastAt: the first sample of a line is the one kept.
FirstAt(timings, lineno) ==
    CHOOSE i \in 1..Len(timings) :
        /\ timings[i][1] = lineno
        /\ \A j \in 1..Len(timings) : timings[j][1] = lineno => i <= j

\* Index in timings of the sample whose tuple d holds for lineno: a later
\* assignment to d[lineno] replaces an earlier one.
LastAt(timings, lineno) ==
    CHOOSE i \in 1..Len(timings) :
        /\ timings[i][1] = lineno
        /\ \A j \in 1..Len(timings) : timings[j][1] = lineno => j <= i

\* The dict d after the loop of lines 221-223 (no nhits is zero).
LineIndex(timings, total_time) ==
    [lineno \in {timings[i][1] : i \in 1..Len(timings)} |->
        Entry(timings[LastAt(timings, lineno)], total_time)]

\* empty of line 225.
empty == << PyStr(""), PyStr(""), "", "" >>

\* d.get(lineno, empty)
DictGet(d, lineno) == IF lineno \in DOMAIN d THEN d[lineno] ELSE empty

\* The dict appended to lines at lines 228-237.
Row(d, lineno, line) ==
    LET t == DictGet(d, lineno)
    IN  ("Line #" :> lineno) @@ ("Hits" :> t[1]) @@ ("Time" :> t[2])
        @@ ("Per Hit" :> t[3]) @@ ("% Time" :> t[4])
        @@ ("Line Contents" :> RStrip(RStrip(line, "\n"), "\r"))

\* Variant of Rows: only the sampled lines get a row.
RowsOfSampledLines(d, start_lineno, sublines) ==
    LET all == [i \in 1..Len(sublines) |->
                   Row(d, start_lineno + i - 1, sublines[i])]
        Sampled(row) == row["Line #"] \in DOMAIN d
    IN  SelectSeq(all, Sampled)

\* lines after the loop of lines 224-237; linenos is
\* range(start_lineno, start_lineno + len(sublines)).
Rows(d, start_lineno, sublines) ==
    [i \in 1..Len(sublines) |-> Row(d, start_lineno + i - 1, sublines[i])]

\* linecache.cache after show_func: untouched when the function returns
\* False at line 203 or takes the branch of line 216.
CacheAfter(c, dsk, filename, timings) ==
    IF TotalTime(timings) = 0 \/ ~SourceAvailable(dsk, filename) THEN c
    ELSE UpdateCache(ClearCache(c, dsk, filename), dsk, filename)

\* show_func(filename, start_lineno, func_name, timings, unit) with the
\* line cache c and the files of dsk: returns False, returns the dict val,
\* or raises.
ShowFunc(c, dsk, filename, start_lineno, func_name, timings, u) ==
    LET total_time == TotalTime(timings)
    IN  IF total_time = 0 THEN [kind |-> "False"]
        ELSE IF DividesByZero(timings)
        THEN [kind |-> "ZeroDivisionError"]
        ELSE [kind |-> "dict",
              val  |-> Header(dsk, filename, start_lineno, func_name,
                              total_time, u)
                       @@ ("lines" :>
                              Rows(LineIndex(timings, total_time),
                                   start_lineno,
                                   Sublines(c, dsk, filename,
                                            start_lineno, timings)))]

\* show_func from line 215 on, in the branch of line 208, once
\* linecache.getlines has returned all_lines.
ShowFuncRest(all_lines, dsk, filename, start_lineno, func_name, timings, u) ==
    LET total_time == TotalTime(timings)
    IN  IF DividesByZero(timings)
        THEN [kind |-> "ZeroDivisionError"]
        ELSE [kind |-> "dict",
              val  |-> Header(dsk, filename, start_lineno, func_name,
                              total_time, u)
                       @@ ("lines" :>
                              Rows(LineIndex(timings, total_time),
                                   start_lineno,
                                   GetBlock(SliceFrom(all_lines,
                                                      start_lineno))))]

(***************************************************************************)
(* show_json.  stats is the sequence stats.items() of <<key, timings>>     *)
(* pairs in the insertion order of the dict, with distinct keys; a key is  *)
(* <<fn, lineno, name>>.                                                   *)
(***************************************************************************)
\* tuple.__lt__ on keys (str, int, str): lexicographic.
KeyLess(a, b) ==
    \/ StrLess(a[1], b[1])
    \/ a[1] = b[1] /\ a[2] < b[2]
    \/ a[1] = b[1] /\ a[2] = b[2] /\ StrLess(a[3], b[3])

\* tuple.__lt__ on the items of a dict: the keys differ, so they decide.
ItemLess(x, y) == KeyLess(x[1], y[1])

RECURSIVE Insert(_, _)
Insert(x, s) ==
    IF s = << >> THEN << x >>
    ELSE IF ItemLess(x, s[1]) THEN << x >> \o s
    ELSE << s[1] >> \o Insert(x, Tail(s))

\* Variant of Sorted: the items stay in insertion order.
InsertionOrder(items) == items

RECURSIVE Sorted(_)
\* sorted(items)
Sorted(items) ==
    IF items = << >> THEN << >>
    ELSE Insert(items[Len(items)], Sorted(SubSeq(items, 1, Len(items) - 1)))

\* stats[fn, lineno, name]
Lookup(items, key) ==
    items[CHOOSE i \in 1..Len(items) : items[i][1] = key][2]

\* The call of show_func at line 169 for the next key of the loop.
Func ==
    LET key == todo[1][1]
    IN  ShowFunc(cache, disk, key[1], key[2], key[3], Lookup(stats, key),
                 unit)

\* linecache.cache after that call.
FuncCache ==
    LET key == todo[1][1]
    IN  CacheAfter(cache, disk, key[1], Lookup(stats, key))

\* What a finished call of show_json gave its caller.
Outcome ==
    IF pc = "done" THEN [kind |-> "return", val |-> retval]
    ELSE [kind |-> "raise", val |-> << >>]

\* Variant of ShowJsonBegin: the report starts without its 'Timer unit'.
ShowJsonBeginNoUnit ==
    /\ pc = "start"
    /\ retval' = ("functions" :> << >>)
    /\ todo' = Sorted(stats)
    /\ pc' = "loop"
    /\ UNCHANGED <<returned, builds, stats, unit, disk, cache>>
    /\ UNCHANGED mainVars

\* Variant of ShowJsonBegin: the dict of an earlier call is used again.
ShowJsonBeginReusing ==
    /\ pc = "start"
    /\ retval' = IF retval = << >>
                 THEN ("Timer unit" :> (FmtG(unit) \o " s"))
                      @@ ("functions" :> << >>)
                 ELSE retval
    /\ todo' = Sorted(stats)
    /\ pc' = "loop"
    /\ UNCHANGED <<returned, builds, stats, unit, disk, cache>>
    /\ UNCHANGED mainVars

\* Lines 165-168: the header of the report, and the sorted items.
ShowJsonBegin ==
    /\ pc = "start"
    /\ retval' = ("Timer unit" :> (FmtG(unit) \o " s")) @@ ("functions" :> << >>)
    /\ todo' = Sorted(stats)
    /\ pc' = "loop"
    /\ UNCHANGED <<returned, builds, stats, unit, disk, cache>>
    /\ UNCHANGED mainVars

\* Lines 169-171, show_func returned a dict: it is appended.
ShowJsonAppend ==
    /\ pc = "loop"
    /\ todo # << >>
    /\ Func.kind = "dict"
    /\ retval' = [retval EXCEPT !["functions"] = Append(@, Func.val)]
    /\ todo' = Tail(todo)
    /\ cache' = FuncCache
    /\ UNCHANGED <<returned, builds, stats, unit, disk, pc>>
    /\ UNCHANGED mainVars

\* Lines 169-170, show_func returned False: nothing is appended.
ShowJsonSkip ==
    /\ pc = "loop"
    /\ todo # << >>
    /\ Func.kind = "False"
    /\ todo' = Tail(todo)
    /\ cache' = FuncCache
    /\ UNCHANGED <<returned, builds, stats, unit, disk, pc, retval>>
    /\ UNCHANGED mainVars

\* Line 169, show_func raised: the exception leaves show_json, which
\* returns nothing.
ShowJsonRaise ==
    /\ pc = "loop"
    /\ todo # << >>
    /\ Func.kind = "ZeroDivisionError"
    /\ pc' = "raised"
    /\ cache' = FuncCache
    /\ UNCHANGED <<returned, builds, stats, unit, disk, todo, retval>>
    /\ UNCHANGED mainVars

\* Line 173: return retval.
ShowJsonReturn ==
    /\ pc = "loop"
    /\ todo = << >>
    /\ pc' = "done"
    /\ UNCHANGED <<returned, builds, stats, unit, disk, cache, todo, retval>>
    /\ UNCHANGED mainVars

Next ==
    \/ ShowJsonBegin
    \/ ShowJsonAppend
    \/ ShowJsonSkip
    \/ ShowJsonRaise
    \/ ShowJsonReturn

\* A caller that has the result of one call of show_json calls it again
\* with the same stats and unit: the files and the line cache are as the
\* first call left them, and so is the dict it returned.
ShowJsonAgain ==
    /\ pc \in {"done", "raised"}
    /\ returned = << >>
    /\ returned' = << Outcome >>
    /\ pc' = "start"
    /\ UNCHANGED <<builds, stats, unit, disk, cache, todo, retval>>
    /\ UNCHANGED mainVars

NextTwice ==
    \/ Next
    \/ ShowJsonAgain

(***************************************************************************)
(* The calls of show_func of line 169 run side by side, one per key, on    *)
(* the one line cache of the process.  builds[key] is the position of the  *)
(* call for key and, once it has ended, what it gave.  A call takes its    *)
(* steps on the cache one at a time: linecache.clearcache() (line 212),    *)
(* then inside linecache.getlines (line 214) the test "filename in cache"  *)
(* and, when it holds, the subscripts cache[filename] and                  *)
(* cache[filename][2], which raise KeyError on a key that is gone.         *)
(***************************************************************************)
Ended(out) == [at |-> "done", out |-> out]

\* The calls are started, after a sequential build whose outcome is kept.
ParStart ==
    /\ pc \in {"done", "raised"}
    /\ returned = << >>
    /\ returned' = << Outcome >>
    /\ builds' = [k \in {stats[i][1] : i \in 1..Len(stats)} |->
                     [at |-> "begin", out |-> [kind |-> "none"]]]
    /\ pc' = "par"
    /\ UNCHANGED <<stats, unit, disk, cache, todo, retval>>
    /\ UNCHANGED mainVars

\* Lines 198-212 of the call for key k: it returns False, builds the
\* report without the source, or clears the line cache.
ParBegin(k) ==
    /\ pc = "par"
    /\ builds[k].at = "begin"
    /\ LET timings == Lookup(stats, k)
       IN  IF TotalTime(timings) = 0
           THEN /\ builds' = [builds EXCEPT ![k] = Ended([kind |-> "False"])]
                /\ cache' = cache
           ELSE IF ~SourceAvailable(disk, k[1])
           THEN /\ builds' = [builds EXCEPT ![k] =
                                 Ended(ShowFunc(cache, disk, k[1], k[2], k[3],
                                                timings, unit))]
                /\ cache' = cache
           ELSE /\ builds' = [builds EXCEPT ![k].at = "lookup"]
                /\ cache' = ClearCache(cache, disk, k[1])
    /\ UNCHANGED <<stats, unit, disk, pc, todo, retval, returned>>
    /\ UNCHANGED mainVars

\* linecache.getlines, the test "filename in cache": when it fails the
\* file is read and cached, and the call goes on to its end.
ParLookup(k) ==
    /\ pc = "par"
    /\ builds[k].at = "lookup"
    /\ IF k[1] \in DOMAIN cache
       THEN /\ builds' = [builds EXCEPT ![k].at = "entry"]
            /\ cache' = cache
       ELSE /\ builds' = [builds EXCEPT ![k] =
                             Ended(ShowFuncRest(ReadLines(disk, k[1]), disk,
                                                k[1], k[2], k[3],
                                                Lookup(stats, k), unit))]
            /\ cache' = UpdateCache(cache, disk, k[1])
    /\ UNCHANGED <<stats, unit, disk, pc, todo, retval, returned>>
    /\ UNCHANGED mainVars

\* linecache.getlines, "entry = cache[filename]".
ParEntry(k) ==
    /\ pc = "par"
    /\ builds[k].at = "entry"
    /\ builds' = IF k[1] \in DOMAIN cache
                 THEN [builds EXCEPT ![k].at = "read"]
                 ELSE [builds EXCEPT ![k] = Ended([kind |-> "KeyError"])]
    /\ UNCHANGED <<stats, unit, disk, cache, pc, todo, retval, returned>>
    /\ UNCHANGED mainVars

\* linecache.getlines, "return cache[filename][2]", and the rest of the
\* call.
ParRead(k) ==
    /\ pc = "par"
    /\ builds[k].at = "read"
    /\ builds' = IF k[1] \in DOMAIN cache
                 THEN [builds EXCEPT ![k] =
                          Ended(ShowFuncRest(cache[k[1]], disk, k[1], k[2],
                                             k[3], Lookup(stats, k), unit))]
                 ELSE [builds EXCEPT ![k] = Ended([kind |-> "KeyError"])]
    /\ UNCHANGED <<stats, unit, disk, cache, pc, todo, retval, returned>>
    /\ UNCHANGED mainVars

\* The dicts the calls returned, in the order of the sorted keys.
Arranged ==
    LET Kept(item) == builds[item[1]].out.kind = "dict"
        kept == SelectSeq(Sorted(stats), Kept)
    IN  [i \in 1..Len(kept) |-> builds[kept[i][1]].out.val]

\* Every call has ended: an exception of a call is the outcome, else the
\* report of lines 165-167 with the results arranged as by lines 168-171.
ParArrange ==
    /\ pc = "par"
    /\ \A k \in DOMAIN builds : builds[k].at = "done"
    /\ IF \E k \in DOMAIN builds :
             builds[k].out.kind \in {"ZeroDivisionError", "KeyError"}
       THEN /\ pc' = "par_raised"
            /\ retval' = retval
       ELSE /\ pc' = "arranged"
            /\ retval' = ("Timer unit" :> (FmtG(unit) \o " s"))
                          @@ ("functions" :> Arranged)
    /\ UNCHANGED <<stats, unit, disk, cache, todo, returned, builds>>
    /\ UNCHANGED mainVars

NextPar ==
    \/ Next
    \/ ParStart
    \/ \E k \in DOMAIN builds : ParBegin(k)
    \/ \E k \in DOMAIN builds : ParLookup(k)
    \/ \E k \in DOMAIN builds : ParEntry(k)
    \/ \E k \in DOMAIN builds : ParRead(k)
    \/ ParArrange

(***************************************************************************)
(* The inputs: the stats of a profiler run, its timer unit, and the files  *)
(* on disk when the report is built.                                       *)
(***************************************************************************)
Keys == Filenames \X (1..MaxLine) \X FuncNames

Samples == (1..MaxLine) \X (0..MaxHits) \X (0..MaxTime)

Timings == UNION {[1..n -> Samples] : n \in 0..MaxSamples}

\* Timer units: 1e-06 s.
Units == {[m |-> 1, e |-> -6]}

\* The file a.py is absent, unreadable or holds one of the source texts;
\* the cell name is no file.
Disks ==
    {[fn \in Filenames |-> IF fn = "a.py" THEN t ELSE NoFile] :
        t \in {NoFile, Unreadable} \cup SourceTexts}

\* main() is not running.
MainIdle ==
    /\ component = "line_profiler"
    /\ data = [isset |-> FALSE, val |-> ""]
    /\ world = << >>
    /\ mpc = "idle"
    /\ argv = << >>
    /\ locals = << >>
    /\ printed = << >>
    /\ ran = << >>

InitCommon ==
    /\ unit \in Units
    /\ disk \in Disks
    /\ cache = << >>
    /\ pc = "start"
    /\ todo = << >>
    /\ retval = << >>
    /\ returned = << >>
    /\ builds = << >>
    /\ MainIdle

\* One profiled function with any timings.
Init ==
    /\ InitCommon
    /\ \E fn \in Filenames, lineno \in 1..MaxLine, t \in Timings :
          stats = << << <<fn, lineno, "f">>, t >> >>

Spec == Init /\ [][Next]_vars

\* Timings of a function of a report with several functions: none, zero
\* time, positive time, and positive time with a zero hit count.
JsonTimings(lineno) ==
    << << >>, << <<lineno, 1, 0>> >>, << <<lineno, 1, 1>> >>,
       << <<lineno, 0, 1>> >> >>

\* Up to MaxFuncs profiled functions, in any insertion order.
InitJson ==
    /\ InitCommon
    /\ \E n \in 0..MaxFuncs :
          \E ks \in [1..n -> Keys], c \in [1..n -> 1..4] :
             /\ \A i, j \in 1..n : ks[i] = ks[j] => i = j
             /\ stats = [i \in 1..n |-> <<ks[i], JsonTimings(ks[i][2])[c[i]]>>]

SpecJson == InitJson /\ [][Next]_vars

\* Two profiled functions, for a caller that builds the report twice.
InitTwice ==
    /\ InitCommon
    /\ \E k1, k2 \in Keys, c1, c2 \in 1..4 :
          /\ k1 # k2
          /\ stats = << <<k1, JsonTimings(k1[2])[c1]>>,
                        <<k2, JsonTimings(k2[2])[c2]>> >>

SpecTwice == InitTwice /\ [][NextTwice]_vars

\* Up to MaxBuilds profiled functions of the file a.py.
ParKeys == {"a.py"} \X (1..MaxLine) \X FuncNames

InitPar ==
    /\ InitCommon
    /\ \E n \in 0..MaxBuilds :
          \E ks \in [1..n -> ParKeys], c \in [1..n -> 1..4] :
             /\ \A i, j \in 1..n : i < j => KeyLess(ks[i], ks[j])
             /\ stats = [i \in 1..n |-> <<ks[i], JsonTimings(ks[i][2])[c[i]]>>]

SpecPar == InitPar /\ [][NextPar]_vars

\* Samples of the function f of a.py defined at line 10, on its first two
\* lines.
NumSamples == (10..11) \X (0..MaxNumHits) \X (0..MaxNumTime)

NumTimings == UNION {[1..n -> NumSamples] : n \in 0..MaxSamples}

\* One profiled function whose source is not on disk, with any hit counts
\* and times.
InitNum ==
    /\ unit \in Units
    /\ disk = [fn \in Filenames |-> NoFile]
    /\ cache = << >>
    /\ pc = "start"
    /\ todo = << >>
    /\ retval = << >>
    /\ returned = << >>
    /\ builds = << >>
    /\ MainIdle
    /\ \E t \in NumTimings : stats = << << <<"a.py", 10, "f">>, t >> >>

SpecNum == InitNum /\ [][Next]_vars

(***************************************************************************)
(* main() of the bootstrap scripts (line_profiler, and flake8 where it     *)
(* differs).  A printed line is a record of its stream, its text and, for  *)
(* a content line, the object dumped after the text.  os.environ is the    *)
(* record data: isset tells whether CO_DATA is set, val is its value.      *)
(***************************************************************************)
Line(fd, text) == [fd |-> fd, text |-> text, body |-> << >>]

\* The characters str.strip() removes.
Whitespace == {" ", "\t", "\n", "\r"}

\* s.strip()
Strip(s) ==
    LET RECURSIVE Left(_), Right(_)
        Left(i) == IF i <= Len(s) /\ Char(s, i) \in Whitespace
                   THEN Left(i + 1) ELSE i
        Right(j) == IF j >= 1 /\ Char(s, j) \in Whitespace
                    THEN Right(j - 1) ELSE j
    IN  IF Left(1) > Len(s) THEN "" ELSE SubSeq(s, Left(1), Right(Len(s)))

\* s.split(sep) for a separator of one character: the empty pieces are
\* kept.
Split(s, sep) ==
    LET RECURSIVE From(_, _)
        From(i, cur) ==
            IF i > Len(s) THEN << cur >>
            ELSE IF Char(s, i) = sep THEN << cur >> \o From(i + 1, "")
            ELSE From(i + 1, cur \o Char(s, i))
    IN  From(1, "")

\* validate of line 309 (flake8: line 172).
Validate(c) ==
    IF c = "flake8" THEN << "git-url", "version", "out-put-type" >>
    ELSE << "git-url", "entry-file", "version", "out-put-type" >>

\* x in lst
InList(x, lst) == \E i \in 1..Len(lst) : lst[i] = x

\* Variant of ParseToken: the value is all the text after the first '='.
ParseTokenWholeValue(acc, token, validate) ==
    LET s   == Strip(token)
        arg == Split(s, "=")
    IN  IF s = "" THEN acc
        ELSE IF Len(arg) < 2 \/ ~InList(arg[1], validate)
        THEN [acc EXCEPT !.printed =
                 Append(@, Line("stdout",
                                "[COUT] Unknown Parameter: [" \o s \o "]"))]
        ELSE [acc EXCEPT !.ret =
                 (arg[1] :> SubSeq(s, Len(arg[1]) + 2, Len(s))) @@ @]

\* Variant of ParseToken: a key that is already set keeps its value.
ParseTokenFirstWins(acc, token, validate) ==
    LET s   == Strip(token)
        arg == Split(s, "=")
    IN  IF s = "" THEN acc
        ELSE IF Len(arg) < 2 \/ ~InList(arg[1], validate)
        THEN [acc EXCEPT !.printed =
                 Append(@, Line("stdout",
                                "[COUT] Unknown Parameter: [" \o s \o "]"))]
        ELSE [acc EXCEPT !.ret = @ @@ (arg[1] :> arg[2])]

\* One iteration of the loop of lines 311-324: acc holds ret and the lines
\* printed so far.
ParseToken(acc, token, validate) ==
    LET s   == Strip(token)
        arg == Split(s, "=")
    IN  IF s = "" THEN acc
        ELSE IF Len(arg) < 2 \/ ~InList(arg[1], validate)
        THEN [acc EXCEPT !.printed =
                 Append(@, Line("stdout",
                                "[COUT] Unknown Parameter: [" \o s \o "]"))]
        ELSE [acc EXCEPT !.ret = (arg[1] :> arg[2]) @@ @]

\* parse_argument() (lines 292-326): the dict it returns and the lines it
\* prints.
ParseArgument(env, validate) ==
    LET tokens == Split(env.val, " ")
        RECURSIVE Upto(_)
        Upto(n) == IF n = 0 THEN [ret |-> << >>, printed |-> << >>]
                   ELSE ParseToken(Upto(n - 1), tokens[n], validate)
    IN  IF ~env.isset \/ env.val = ""
        THEN [ret |-> << >>, printed |-> << >>]
        ELSE Upto(Len(tokens))

\* Line 335: argv = parse_argument().
MainParseArgument ==
    /\ mpc = "parse_argument"
    /\ LET r == ParseArgument(data, Validate(component))
       IN  /\ argv' = r.ret
           /\ printed' = printed \o r.printed
    /\ mpc' = "git_url"
    /\ UNCHANGED <<component, data, world, locals, ran>>
    /\ UNCHANGED <<stats, unit, disk, cache, pc, todo, retval, returned,
                   builds>>

\* No profile is loaded and show_json is not running.
ShowIdle ==
    /\ stats = << >>
    /\ unit \in Units
    /\ disk = [fn \in Filenames |-> NoFile]
    /\ cache = << >>
    /\ pc = "idle"
    /\ todo = << >>
    /\ retval = << >>
    /\ returned = << >>
    /\ builds = << >>

\* Tokens of CO_DATA: empty, well formed, without '=', with an unknown or
\* an empty key, with an empty value, with a second '=', with a tab.
Tokens ==
    { "", "git-url=u", "git-url=v?a=b", "version=python3", "entry-file",
      "foo=1", "=x", "entry-file=", "out-put-type=yaml\t" }

\* The tokens of ts, joined by single spaces.
Join(ts) ==
    LET RECURSIVE Upto(_)
        Upto(n) == IF n = 0 THEN ""
                   ELSE IF n = 1 THEN ts[1]
                   ELSE Upto(n - 1) \o " " \o ts[n]
    IN  Upto(Len(ts))

\* CO_DATA is unset, or set to up to MaxTokens tokens.
Environs ==
    {[isset |-> FALSE, val |-> ""]}
    \cup {[isset |-> TRUE, val |-> Join(ts)] :
             ts \in UNION {[1..n -> Tokens] : n \in 0..MaxTokens}}

\* parse_argument of either script on any such CO_DATA.
InitArgs ==
    /\ ShowIdle
    /\ component \in {"line_profiler", "flake8"}
    /\ data \in Environs
    /\ world = << >>
    /\ mpc = "parse_argument"
    /\ argv = << >>
    /\ locals = << >>
    /\ printed = << >>
    /\ ran = << >>

NextArgs == MainParseArgument

SpecArgs == InitArgs /\ [][NextArgs]_vars

\* REPO_PATH of line 14.
REPO_PATH == "git-repo"

\* argv.get(key, default)
ArgvGet(d, key, default) == IF key \in DOMAIN d THEN d[key] ELSE default

\* not argv.get(key): the key is absent or its value is ''.
Missing(d, key) == key \notin DOMAIN d \/ d[key] = ""

\* version of line 342.
Version == ArgvGet(argv, "version", "py3k")

\* valid_version of line 97.
ValidVersion == << "python", "python2", "python3", "py3k" >>

\* get_pip_cmd (lines 40-54).
GetPipCmd(version) ==
    IF version = "py3k" \/ version = "python3" THEN "pip3" ELSE "pip"

\* get_python_cmd (lines 57-72).
GetPythonCmd(version) ==
    IF version = "py3k" \/ version = "python3" THEN "python3" ELSE "python"

\* The place of the last '/' of path, 0 if none.
LastSlash(path) ==
    LET RECURSIVE At(_)
        At(i) == IF i = 0 \/ Char(path, i) = "/" THEN i ELSE At(i - 1)
    IN  At(Len(path))

\* os.path.dirname and os.path.basename, for a path with a directory
\* part that is not the root.
Dirname(path) == SubSeq(path, 1, LastSlash(path) - 1)

Basename(path) == SubSeq(path, LastSlash(path) + 1, Len(path))

\* os.path.join(a, b)
PathJoin(a, b) == IF StartsWith(b, "/") THEN b ELSE a \o "/" \o b

\* The packages init_env installs (line 84; flake8: line 62).
Packages(c) ==
    IF c = "flake8" THEN << "flake8" >> ELSE << "cython", "line_profiler" >>

\* The command string of setup (line 119).
SetupCmd(path, version) ==
    "cd " \o Dirname(path) \o "; " \o GetPythonCmd(version) \o " "
    \o Basename(path) \o " install"

\* The line that reports the result of the run.
ResultLine(ok) ==
    Line("stdout", "[COUT] CO_RESULT = " \o (IF ok THEN "true" ELSE "false"))

\* Variant of MainCheckGitUrl: only an absent git-url is refused.
MainCheckGitUrlLax ==
    /\ mpc = "git_url"
    /\ IF "git-url" \notin DOMAIN argv
       THEN /\ printed' = printed
                   \o << Line("stderr", "[COUT] The git-url value is null"),
                         ResultLine(FALSE) >>
            /\ mpc' = "returned"
       ELSE /\ printed' = printed
            /\ mpc' = "version"
    /\ UNCHANGED <<component, data, world, argv, locals, ran>>
    /\ UNCHANGED showVars

\* Lines 336-340.
MainCheckGitUrl ==
    /\ mpc = "git_url"
    /\ IF Missing(argv, "git-url")
       THEN /\ printed' = printed
                   \o << Line("stderr", "[COUT] The git-url value is null"),
                         ResultLine(FALSE) >>
            /\ mpc' = "returned"
       ELSE /\ printed' = printed
            /\ mpc' = "version"
    /\ UNCHANGED <<component, data, world, argv, locals, ran>>
    /\ UNCHANGED showVars

\* Lines 342-346, with validate_version (lines 87-102).
MainValidateVersion ==
    /\ mpc = "version"
    /\ IF ~InList(Version, ValidVersion)
       THEN /\ printed' = printed
                   \o << Line("stderr",
                              "[COUT] Check version failed: the valid version is ['python', 'python2', 'python3', 'py3k']"),
                         ResultLine(FALSE) >>
            /\ mpc' = "returned"
       ELSE /\ printed' = printed
            /\ mpc' = "init_env"
    /\ UNCHANGED <<component, data, world, argv, locals, ran>>
    /\ UNCHANGED showVars

\* Line 348, with init_env (lines 75-84): the result of pip is not read.
MainInitEnv ==
    /\ mpc = "init_env"
    /\ ran' = Append(ran, << GetPipCmd(Version), "install" >>
                          \o Packages(component))
    /\ mpc' = IF component = "flake8" THEN "git_clone" ELSE "entry_file"
    /\ UNCHANGED <<component, data, world, argv, locals, printed>>
    /\ UNCHANGED showVars

\* Lines 350-354.
MainCheckEntryFile ==
    /\ mpc = "entry_file"
    /\ IF Missing(argv, "entry-file")
       THEN /\ printed' = printed
                   \o << Line("stderr", "[COUT] The entry-file value is null"),
                         ResultLine(FALSE) >>
            /\ mpc' = "returned"
       ELSE /\ printed' = printed
            /\ mpc' = "git_clone"
    /\ UNCHANGED <<component, data, world, argv, locals, ran>>
    /\ UNCHANGED showVars

\* Variant of MainGitClone: main reports the failed clone once more.
MainGitClonePrintsTwice ==
    /\ mpc = "git_clone"
    /\ ran' = Append(ran, << "git", "clone", argv["git-url"], REPO_PATH >>)
    /\ IF world.clone_rc = 0
       THEN /\ printed' = printed
            /\ mpc' = IF component = "flake8" THEN "walk" ELSE "setup"
            /\ locals' = IF component = "flake8"
                         THEN [all_true |-> TRUE, i |-> 1]
                         ELSE locals
       ELSE /\ printed' = printed
                   \o << Line("stderr",
                              "[COUT] Git clone error: Invalid argument to exit"),
                         ResultLine(FALSE), ResultLine(FALSE) >>
            /\ mpc' = "returned"
            /\ locals' = locals
    /\ UNCHANGED <<component, data, world, argv>>
    /\ UNCHANGED showVars

\* Variant of MainGitClone: the run goes on after a failed clone.
MainGitCloneIgnoresFailure ==
    /\ mpc = "git_clone"
    /\ ran' = Append(ran, << "git", "clone", argv["git-url"], REPO_PATH >>)
    /\ printed' = IF world.clone_rc = 0 THEN printed
                  ELSE Append(printed,
                              Line("stderr",
                                   "[COUT] Git clone error: Invalid argument to exit"))
    /\ mpc' = IF component = "flake8" THEN "walk" ELSE "setup"
    /\ locals' = IF component = "flake8"
                 THEN [all_true |-> TRUE, i |-> 1]
                 ELSE locals
    /\ UNCHANGED <<component, data, world, argv>>
    /\ UNCHANGED showVars

\* Lines 356-357, with git_clone (lines 17-37); flake8: lines 213-217.
MainGitClone ==
    /\ mpc = "git_clone"
    /\ ran' = Append(ran, << "git", "clone", argv["git-url"], REPO_PATH >>)
    /\ IF world.clone_rc = 0
       THEN /\ printed' = printed
            /\ mpc' = IF component = "flake8" THEN "walk" ELSE "setup"
            /\ locals' = IF component = "flake8"
                         THEN [all_true |-> TRUE, i |-> 1]
                         ELSE locals
       ELSE /\ printed' = printed
                   \o << Line("stderr",
                              "[COUT] Git clone error: Invalid argument to exit"),
                         ResultLine(FALSE) >>
            /\ mpc' = "returned"
            /\ locals' = locals
    /\ UNCHANGED <<component, data, world, argv>>
    /\ UNCHANGED showVars

\* Lines 359-363, with setup (lines 105-127): subprocess.run is given the
\* command line as one string with shell=False, so the string is taken as
\* the name of a program, which does not exist: the call raises and the
\* exception leaves main.  Without a setup.py the loops do nothing.
MainSetup ==
    /\ mpc = "setup"
    /\ IF world.setups # << >>
       THEN /\ ran' = Append(ran, << SetupCmd(world.setups[1], Version) >>)
            /\ mpc' = "raised"
            /\ locals' = locals
       ELSE /\ ran' = ran
            /\ mpc' = "pip_install"
            /\ locals' = [i |-> 1]
    /\ UNCHANGED <<component, data, world, argv, printed>>
    /\ UNCHANGED showVars

\* One iteration of the loops of lines 365-369, with pip_install (lines
\* 130-149): what pip_install returns is not read.
MainPipInstall ==
    /\ mpc = "pip_install"
    /\ locals.i <= Len(world.reqs)
    /\ ran' = Append(ran, << GetPipCmd(Version), "install", "-r",
                             world.reqs[locals.i].file >>)
    /\ printed' = IF world.reqs[locals.i].rc # 0
                  THEN Append(printed,
                              Line("stderr",
                                   "[COUT] install dependences failed"))
                  ELSE printed
    /\ locals' = [i |-> locals.i + 1]
    /\ UNCHANGED <<component, data, world, mpc, argv>>
    /\ UNCHANGED showVars

\* Lines 371-373 and 259-266: kernprof runs, the profile is loaded and
\* show_json is called on it.  load_stats raises when kernprof left no
\* profile.
MainLineProfiler ==
    /\ mpc = "pip_install"
    /\ locals.i > Len(world.reqs)
    /\ ran' = Append(ran, << "kernprof", "-l",
                             PathJoin(REPO_PATH, argv["entry-file"]) >>)
    /\ locals' = [passed   |-> world.kernprof_rc = 0,
                  use_yaml |-> ArgvGet(argv, "out-put-type", "json") = "yaml"]
    /\ IF world.lprof
       THEN /\ stats' = world.timings
            /\ pc' = "start"
            /\ mpc' = "show_json"
       ELSE /\ stats' = stats
            /\ pc' = pc
            /\ mpc' = "raised"
    /\ UNCHANGED <<component, data, world, argv, printed>>
    /\ UNCHANGED <<unit, disk, cache, todo, retval, returned, builds>>

\* Lines 267-271: show_json returned, the report is printed.
MainPrintContent ==
    /\ mpc = "show_json"
    /\ pc = "done"
    /\ printed' = Append(printed,
                         [fd   |-> "stdout",
                          text |-> IF locals.use_yaml
                                   THEN "[COUT] CO_YAML_CONTENT"
                                   ELSE "[COUT] CO_JSON_CONTENT",
                          body |-> retval])
    /\ mpc' = "result"
    /\ UNCHANGED <<component, data, world, argv, locals, ran>>
    /\ UNCHANGED showVars

\* Line 266: the exception of show_json leaves line_profiler and main.
MainShowJsonRaised ==
    /\ mpc = "show_json"
    /\ pc = "raised"
    /\ mpc' = "raised"
    /\ UNCHANGED <<component, data, world, argv, locals, printed, ran>>
    /\ UNCHANGED showVars

\* Lines 273 and 375-378.
MainPrintResult ==
    /\ mpc = "result"
    /\ printed' = Append(printed, ResultLine(locals.passed))
    /\ mpc' = "returned"
    /\ UNCHANGED <<component, data, world, argv, locals, ran>>
    /\ UNCHANGED showVars

NextMain ==
    \/ MainParseArgument
    \/ MainCheckGitUrl
    \/ MainValidateVersion
    \/ MainInitEnv
    \/ MainCheckEntryFile
    \/ MainGitClone
    \/ MainSetup
    \/ MainPipInstall
    \/ MainLineProfiler
    \/ Next
    \/ MainPrintContent
    \/ MainShowJsonRaised
    \/ MainPrintResult

\* Values of CO_DATA: unset; without git-url; with an empty git-url; with
\* a version that is not valid; without entry-file; complete, with the
\* default and with a given version and output type; with an unknown
\* token.
MainData ==
    {[isset |-> FALSE, val |-> ""]}
    \cup {[isset |-> TRUE, val |-> v] :
             v \in { "entry-file=m.py",
                     "git-url= entry-file=m.py",
                     "git-url=u version=jython entry-file=m.py",
                     "git-url=u",
                     "git-url=u entry-file=m.py",
                     "git-url=u entry-file=m.py version=python out-put-type=yaml",
                     "git-url=u bogus entry-file=m.py" }}

\* The profiles kernprof may leave: no function, a function with a
\* sample of no time, of some time, and of no hit.
Profiles ==
    { << >>,
      << << <<"a.py", 1, "f">>, << <<1, 1, 0>> >> >> >>,
      << << <<"a.py", 1, "f">>, << <<1, 1, 1>> >> >> >>,
      << << <<"a.py", 1, "f">>, << <<1, 0, 1>> >> >> >> }

\* What the commands of a run of the line_profiler script answer: the
\* exit code of git clone, the setup.py and requirements files of the
\* globs with the exit code of pip for each, the exit code of kernprof,
\* whether it wrote a profile, and the profile.
Worlds ==
    [clone_rc    : {0, 128},
     setups      : {<< >>, << "./git-repo/setup.py" >>},
     reqs        : { << >>,
                     << [file |-> "./git-repo/requirements.txt", rc |-> 0] >>,
                     << [file |-> "./git-repo/requirements.txt", rc |-> 1],
                        [file |-> "./git-repo/doc/requirements.txt",
                         rc |-> 0] >> },
     kernprof_rc : {0, 1},
     lprof       : BOOLEAN,
     timings     : Profiles]

InitMain ==
    /\ ShowIdle
    /\ component = "line_profiler"
    /\ data \in MainData
    /\ world \in Worlds
    /\ mpc = "parse_argument"
    /\ argv = << >>
    /\ locals = << >>
    /\ printed = << >>
    /\ ran = << >>

SpecMain == InitMain /\ [][NextMain]_vars

(***************************************************************************)
(* main() of the flake8 script from its walk of the clone on; up to the    *)
(* clone it is the main() above without the entry-file check.  world.files *)
(* lists the files in the order of os.walk, each with the exit code and    *)
(* the standard output flake8 gives for it.                                *)
(***************************************************************************)
\* file_name.endswith(suffix)
EndsWith(s, suffix) ==
    /\ Len(s) >= Len(suffix)
    /\ SubSeq(s, Len(s) - Len(suffix) + 1, Len(s)) = suffix

\* trim_repo_path (flake8: lines 140-153).
TrimRepoPath(n) == SubSeq(n, Len(REPO_PATH) + 2, Len(n))

\* parse_flake8_result (flake8: lines 120-138): a sequence of no or one
\* dict.
ParseFlake8Result(line) ==
    LET parts == Split(line, ":")
    IN  IF Len(parts) < 4 THEN << >>
        ELSE << [file |-> TrimRepoPath(parts[1]), line |-> parts[2],
                 col |-> parts[3], msg |-> parts[4]] >>

\* retval of flake8 (flake8: lines 101-106) for the output stdout.
Flake8Results(stdout) ==
    LET lines == Split(Strip(stdout), "\n")
        RECURSIVE Upto(_)
        Upto(n) == IF n = 0 THEN << >>
                   ELSE Upto(n - 1) \o ParseFlake8Result(lines[n])
    IN  Upto(Len(lines))

\* The lines flake8() prints for the output stdout (flake8: lines
\* 109-115).
Flake8Content(stdout, use_yaml) ==
    IF Flake8Results(stdout) = << >> THEN << >>
    ELSE << [fd   |-> "stdout",
             text |-> IF use_yaml THEN "[COUT] CO_YAML_CONTENT"
                      ELSE "[COUT] CO_JSON_CONTENT",
             body |-> ("results" :> ("cli" :> Flake8Results(stdout)))] >>

\* Variant of Flake8File: flake8 is not run once a file has failed.
Flake8FileShortCircuit ==
    /\ mpc = "walk"
    /\ locals.i <= Len(world.files)
    /\ LET f == world.files[locals.i]
       IN  IF EndsWith(f.name, ".py") /\ locals.all_true
           THEN /\ ran' = Append(ran, << "flake8", PathJoin(f.root, f.name) >>)
                /\ printed' = printed
                      \o Flake8Content(f.stdout,
                                       ArgvGet(argv, "out-put-type", "json")
                                          = "yaml")
                /\ locals' = [all_true |-> locals.all_true /\ f.rc = 0,
                              i        |-> locals.i + 1]
           ELSE /\ ran' = ran
                /\ printed' = printed
                /\ locals' = [locals EXCEPT !.i = @ + 1]
    /\ UNCHANGED <<component, data, world, mpc, argv>>
    /\ UNCHANGED showVars

\* One file of the walk (flake8: lines 219-223), with flake8 (flake8:
\* lines 83-117) when its name ends with '.py'.
Flake8File ==
    /\ mpc = "walk"
    /\ locals.i <= Len(world.files)
    /\ LET f == world.files[locals.i]
       IN  IF EndsWith(f.name, ".py")
           THEN /\ ran' = Append(ran, << "flake8", PathJoin(f.root, f.name) >>)
                /\ printed' = printed
                      \o Flake8Content(f.stdout,
                                       ArgvGet(argv, "out-put-type", "json")
                                          = "yaml")
                /\ locals' = [all_true |-> locals.all_true /\ f.rc = 0,
                              i        |-> locals.i + 1]
           ELSE /\ ran' = ran
                /\ printed' = printed
                /\ locals' = [locals EXCEPT !.i = @ + 1]
    /\ UNCHANGED <<component, data, world, mpc, argv>>
    /\ UNCHANGED showVars

\* The walk is over (flake8: lines 225-228).
Flake8PrintResult ==
    /\ mpc = "walk"
    /\ locals.i > Len(world.files)
    /\ printed' = Append(printed, ResultLine(locals.all_true))
    /\ mpc' = "returned"
    /\ UNCHANGED <<component, data, world, argv, locals, ran>>
    /\ UNCHANGED showVars

NextFlake8 ==
    \/ MainParseArgument
    \/ MainCheckGitUrl
    \/ MainValidateVersion
    \/ MainInitEnv
    \/ MainGitClone
    \/ Flake8File
    \/ Flake8PrintResult

\* Values of CO_DATA for the flake8 script.
Flake8Data ==
    {[isset |-> FALSE, val |-> ""]}
    \cup {[isset |-> TRUE, val |-> v] :
             v \in { "git-url=u",
                     "git-url=u version=jython",
                     "git-url=u out-put-type=yaml entry-file=m.py" }}

\* A file of the clone with what flake8 answers for it.
FileEntries ==
    [root   : {"git-repo"},
     name   : {"a.py", "b.py", "notes.txt"},
     rc     : {0, 1},
     stdout : { "",
                "git-repo/a.py:1:1: E302 expected 2 blank lines\nwarning\n" }]

\* Up to MaxFiles files of different names.
FileLists ==
    {fs \in UNION {[1..n -> FileEntries] : n \in 0..MaxFiles} :
        \A i, j \in 1..Len(fs) : fs[i].name = fs[j].name => i = j}

InitFlake8 ==
    /\ ShowIdle
    /\ component = "flake8"
    /\ data \in Flake8Data
    /\ world \in [clone_rc : {0, 128}, files : FileLists]
    /\ mpc = "parse_argument"
    /\ argv = << >>
    /\ locals = << >>
    /\ printed = << >>
    /\ ran = << >>

SpecFlake8 == InitFlake8 /\ [][NextFlake8]_vars

(***************************************************************************)
(* Properties.  Under Spec the stats hold one function: TheKey and         *)
(* TheTimings are its key and samples, TheReport the function report       *)
(* show_json appended for it.                                              *)
(***************************************************************************)
TheKey == stats[1][1]

TheTimings == stats[1][2]

Emitted == pc \in {"loop", "done"} /\ Len(retval["functions"]) = 1

TheReport == retval["functions"][1]

Terminated == pc \in {"done", "raised"}

\* The sum of the cumulative times of the samples.
SampleTimeSum(timings) ==
    LET RECURSIVE Upto(_)
        Upto(n) == IF n = 0 THEN 0 ELSE Upto(n - 1) + timings[n][3]
    IN  Upto(Len(timings))

\* The 'Time' of a row, an unsampled row counting as 0.
RowTime(row) == IF row["Time"].type = "int" THEN row["Time"].val ELSE 0

RowTimeSum(rows) ==
    LET RECURSIVE Upto(_)
        Upto(n) == IF n = 0 THEN 0 ELSE Upto(n - 1) + RowTime(rows[n])
    IN  Upto(Len(rows))

\* The statistic fields of a row are the empty defaults.
Unsampled(row) ==
    /\ row["Hits"] = PyStr("")
    /\ row["Time"] = PyStr("")
    /\ row["Per Hit"] = ""
    /\ row["% Time"] = ""

LinenoSet(timings) == {timings[i][1] : i \in 1..Len(timings)}

SetMax(S) == CHOOSE x \in S : \A y \in S : y <= x

SetMin(S) == CHOOSE x \in S : \A y \in S : x <= y

\* The source of the function is neither a file on disk nor a cell.
MissingSource ==
    /\ disk[TheKey[1]] = NoFile
    /\ ~StartsWith(TheKey[1], "<ipython-input-")

\* C1: in every emitted function report, the 'Time' values of the rows
\* (an unsampled row counting 0) add up to the sum of the cumulative times
\* of all samples of the function.
C1_RowTimesSumToTotal ==
    Emitted => RowTimeSum(TheReport["lines"]) = SampleTimeSum(TheTimings)

\* C2: a sample with hit_count = 0 in a function of positive total time
\* never makes the build fail: show_json does not raise.
C2_ZeroHitBuildCompletes ==
    (/\ SampleTimeSum(TheTimings) > 0
     /\ \E i \in 1..Len(TheTimings) : TheTimings[i][2] = 0)
    => pc # "raised"

\* C3: when the build of a function of positive total time has ended, its
\* report is emitted and every row at the line of a zero-hit sample is the
\* row of an unsampled line.
C3_ZeroHitRowIsUnsampled ==
    (Terminated /\ SampleTimeSum(TheTimings) > 0)
    => \A i \in 1..Len(TheTimings) :
          TheTimings[i][2] = 0
          => /\ Emitted
             /\ \A r \in 1..Len(TheReport["lines"]) :
                   TheReport["lines"][r]["Line #"] = TheTimings[i][1]
                   => Unsampled(TheReport["lines"][r])

\* C7: every emitted function report has exactly the keys 'Total time',
\* 'File', 'Function' and 'lines', 'File' is the source path of the key
\* and 'Function' is '<name> at line <start_line>'.
C7_CompleteWireObject ==
    Emitted
    => /\ DOMAIN TheReport = {"Total time", "File", "Function", "lines"}
       /\ TheReport["File"] = TheKey[1]
       /\ TheReport["Function"]
             = TheKey[3] \o " at line " \o IntToStr(TheKey[2])

\* C8: in every emitted function report, every sample's line number is
\* the line number of a row of the report.
C8_SamplesHaveRows ==
    Emitted
    => \A i \in 1..Len(TheTimings) :
          \E r \in 1..Len(TheReport["lines"]) :
             TheReport["lines"][r]["Line #"] = TheTimings[i][1]

\* C9: the report of a function whose source is missing has
\* max(sampled lines) - min(start_line, min(sampled lines)) + 1 rows, and
\* every row has an empty 'Line Contents'.
C9_MissingSourceRows ==
    (Emitted /\ MissingSource)
    => /\ Len(TheReport["lines"])
             = SetMax(LinenoSet(TheTimings))
               - SetMin(LinenoSet(TheTimings) \cup {TheKey[2]}) + 1
       /\ \A r \in 1..Len(TheReport["lines"]) :
             TheReport["lines"][r]["Line Contents"] = ""

\* C9 witness: a report for a missing source whose only sample lies after
\* the start line, so that the rows begin before the first sample.
C9_Witness ==
    /\ Emitted
    /\ MissingSource
    /\ TheKey[2] = 1
    /\ LinenoSet(TheTimings) = {2}
    /\ Len(TheReport["lines"]) = 2

\* C10: the rows of a function report are one row per line number of
\* start_line, start_line + 1, ..., in ascending order without gap or
\* repeat, as many as the block has lines; unsampled lines have a row.
C10_OneRowPerBlockLine ==
    Emitted
    => /\ Len(TheReport["lines"])
             = Len(Sublines(<< >>, disk, TheKey[1], TheKey[2], TheTimings))
       /\ \A r \in 1..Len(TheReport["lines"]) :
             TheReport["lines"][r]["Line #"] = TheKey[2] + r - 1

\* C10 witness: a report over a source block of three lines, one of them
\* sampled and the others present as unsampled rows.
C10_Witness ==
    /\ Emitted
    /\ disk[TheKey[1]] # NoFile
    /\ Len(TheReport["lines"]) = 3
    /\ Cardinality({r \in 1..3 : Unsampled(TheReport["lines"][r])}) = 2

(***************************************************************************)
(* Properties of reports over several functions (SpecJson).                *)
(***************************************************************************)
\* C4: a step of the loop appends a function report exactly when the
\* samples of the function sum to a positive time, and a function whose
\* samples sum to zero is skipped without an exception.
C4_EmittedIffPositiveTime ==
    [][ (pc = "loop" /\ todo # << >>)
        => /\ SampleTimeSum(todo[1][2]) = 0
                 => (pc' = "loop" /\ retval' = retval)
           /\ pc' = "loop"
                 => (Len(retval'["functions"]) = Len(retval["functions"]) + 1
                        <=> SampleTimeSum(todo[1][2]) > 0) ]_vars

\* C4 witness: a returned report of two functions, one emitted and one
\* dropped although it has a sample.
C4_Witness ==
    /\ pc = "done"
    /\ Len(stats) = 2
    /\ Len(retval["functions"]) = 1
    /\ \E i \in 1..2 : stats[i][2] # << >> /\ SampleTimeSum(stats[i][2]) = 0

\* C5: a returned report has at most as many function reports as stats
\* has keys, and fewer exactly when some function has zero total time.
C5_CountAtMostKeys ==
    pc = "done"
    => /\ Len(retval["functions"]) <= Len(stats)
       /\ Len(retval["functions"]) < Len(stats)
             <=> \E i \in 1..Len(stats) : SampleTimeSum(stats[i][2]) = 0

\* C5 witness: a returned report with as many function reports as keys.
C5_Witness ==
    /\ pc = "done"
    /\ Len(stats) = 2
    /\ Len(retval["functions"]) = 2

\* The key of a function report that carries 'File' and 'Function'.
KeyOfReport(r) ==
    CHOOSE k \in {stats[i][1] : i \in 1..Len(stats)} :
        /\ r["File"] = k[1]
        /\ r["Function"] = k[3] \o " at line " \o IntToStr(k[2])

\* C6: the functions are visited, and their reports listed, in ascending
\* order of (source_path, start_line, function_name), whatever the
\* insertion order of stats.
C6_ReportsInKeyOrder ==
    /\ pc # "start"
          => \A i, j \in 1..Len(todo) :
                i < j => KeyLess(todo[i][1], todo[j][1])
    /\ pc = "done"
          => \A i, j \in 1..Len(retval["functions"]) :
                (/\ i < j
                 /\ "File" \in DOMAIN retval["functions"][i]
                 /\ "File" \in DOMAIN retval["functions"][j])
                => KeyLess(KeyOfReport(retval["functions"][i]),
                           KeyOfReport(retval["functions"][j]))

\* C6 witness: a returned report of two functions that were inserted in
\* descending key order.
C6_Witness ==
    /\ pc = "done"
    /\ Len(stats) = 2
    /\ KeyLess(stats[2][1], stats[1][1])
    /\ Len(retval["functions"]) = 2
    /\ "File" \in DOMAIN retval["functions"][1]
    /\ "File" \in DOMAIN retval["functions"][2]

\* The label show_func gives a function report for the key k.
LabelOf(k) == k[3] \o " at line " \o IntToStr(k[2])

\* Some function report of the output carries the file and label of k.
Reported(k) ==
    \E r \in 1..Len(retval["functions"]) :
        /\ "File" \in DOMAIN retval["functions"][r]
        /\ retval["functions"][r]["File"] = k[1]
        /\ retval["functions"][r]["Function"] = LabelOf(k)

\* No sample of the timings has a zero hit count.
NoZeroHit(timings) == \A i \in 1..Len(timings) : timings[i][2] # 0

\* C11: a function whose source file exists but cannot be read is dropped
\* from the report, and the failed read does not abort the build.
C11_UnreadableSourceDropped ==
    /\ (\A i \in 1..Len(stats) : NoZeroHit(stats[i][2])) => pc # "raised"
    /\ pc = "done"
          => \A i \in 1..Len(stats) :
                disk[stats[i][1][1]] = Unreadable => ~Reported(stats[i][1])

\* C12: the report of a function depends only on its key, its samples,
\* the unit and its source: whenever show_func builds a report for a
\* function taken alone, the build of any stats holding that function ends
\* with that same report in its output, whatever the other functions are.
C12_ReportIndependentOfOthers ==
    Terminated
    => \A i \in 1..Len(stats) :
          LET k     == stats[i][1]
              alone == ShowFunc(<< >>, disk, k[1], k[2], k[3], stats[i][2],
                                unit)
          IN  alone.kind = "dict"
              => /\ pc = "done"
                 /\ \E r \in 1..Len(retval["functions"]) :
                       retval["functions"][r] = alone.val

\* The four statistic fields of a row are populated from the one sample.
PopulatedFrom(row, sample) ==
    /\ row["Line #"] = sample[1]
    /\ row["Hits"] = PyInt(sample[2])
    /\ row["Time"] = PyInt(sample[3])
    /\ Len(row["Per Hit"]) >= 5
    /\ Len(row["% Time"]) >= 5

\* C13: in every row of every emitted function report the four statistic
\* fields are either all populated from one sample of the function or all
\* the empty default; no row mixes the two.
C13_NoPartialRow ==
    Emitted
    => \A r \in 1..Len(TheReport["lines"]) :
          LET row == TheReport["lines"][r]
          IN  \/ Unsampled(row)
              \/ \E i \in 1..Len(TheTimings) : PopulatedFrom(row, TheTimings[i])

\* A report with a populated row of zero time and a defaulted row.
C13_Witness ==
    /\ Emitted
    /\ \E r \in 1..Len(TheReport["lines"]) : Unsampled(TheReport["lines"][r])
    /\ \E r \in 1..Len(TheReport["lines"]) :
          /\ ~Unsampled(TheReport["lines"][r])
          /\ TheReport["lines"][r]["Time"] = PyInt(0)

\* The value of a decimal digit character.
DigitVal(c) == CHOOSE d \in 0..9 : Digit(d) = c

\* The number of tenths a one-decimal text such as " 33.3" stands for.
Tenths(text) ==
    LET RECURSIVE Upto(_)
        Upto(n) == IF n = 0 THEN 0
                   ELSE IF Char(text, n) \in {" ", "."} THEN Upto(n - 1)
                   ELSE 10 * Upto(n - 1) + DigitVal(Char(text, n))
    IN  Upto(Len(text))

Abs(x) == IF x < 0 THEN 0 - x ELSE x

\* The rows of a report whose statistic fields are populated.
SampledRows(rows) == {r \in 1..Len(rows) : ~Unsampled(rows[r])}

\* The sum, in tenths, of the percents of the sampled rows.
PercentSum(rows) ==
    LET RECURSIVE Upto(_)
        Upto(n) == IF n = 0 THEN 0
                   ELSE Upto(n - 1)
                        + (IF n \in SampledRows(rows)
                           THEN Tenths(rows[n]["% Time"]) ELSE 0)
    IN  Upto(Len(rows))

\* C14: in every emitted function report each sampled row's percent lies
\* in [0, 100] and the percents of the sampled rows add up to 100, up to
\* half a tenth of rounding per row.
C14_PercentsSumTo100 ==
    Emitted
    => LET rows == TheReport["lines"]
       IN  /\ \A r \in SampledRows(rows) :
                 Tenths(rows[r]["% Time"]) \in 0..1000
           /\ 2 * Abs(PercentSum(rows) - 1000)
                 <= Cardinality(SampledRows(rows))

\* C15: in every row with a positive hit count, the per-hit text is the
\* row's time divided by its hit count, to the nearest tenth.
C15_PerHitIsTimeOverHits ==
    Emitted
    => \A r \in SampledRows(TheReport["lines"]) :
          LET row == TheReport["lines"][r]
          IN  row["Hits"].val > 0
              => 2 * Abs(10 * row["Time"].val
                         - Tenths(row["Per Hit"]) * row["Hits"].val)
                    <= row["Hits"].val

\* A row whose per-hit time is not a whole number: time 1 over 3 hits.
C15_Witness ==
    /\ Emitted
    /\ \E r \in SampledRows(TheReport["lines"]) :
          /\ TheReport["lines"][r]["Hits"] = PyInt(3)
          /\ TheReport["lines"][r]["Time"] = PyInt(1)
          /\ TheReport["lines"][r]["Per Hit"] = "  0.3"

\* The samples (line 10, 5 hits, time 1) and (line 11, 5 hits, time 2).
ScenarioA == TheTimings = << <<10, 5, 1>>, <<11, 5, 2>> >>

\* C16: in every sampled row the percent text is 100 times the row's time
\* over the sum of the times of all samples, to the nearest tenth; the
\* samples (10, 5, 1) and (11, 5, 2) give one report of two rows with
\* hits 5 each and percents 33.3 and 66.7.
C16_PercentIsShareOfTotal ==
    /\ Emitted
       => \A r \in SampledRows(TheReport["lines"]) :
             2 * Abs(1000 * TheReport["lines"][r]["Time"].val
                     - Tenths(TheReport["lines"][r]["% Time"])
                       * SampleTimeSum(TheTimings))
                <= SampleTimeSum(TheTimings)
    /\ ScenarioA => pc # "raised"
    /\ (ScenarioA /\ pc = "done")
       => /\ Len(retval["functions"]) = 1
          /\ Len(TheReport["lines"]) = 2
          /\ \A r \in 1..2 : TheReport["lines"][r]["Hits"] = PyInt(5)
          /\ TheReport["lines"][1]["% Time"] = " 33.3"
          /\ TheReport["lines"][2]["% Time"] = " 66.7"

C16_Witness == ScenarioA /\ pc = "done"

\* C17: a second call of show_json on the same stats and unit, with the
\* same files on disk, ends as the first call did: it returns an equal
\* report (same functions in the same order, same rows, same fields) or
\* raises as the first call raised, whatever the first call left behind.
C17_SecondCallGivesSameReport ==
    (returned # << >> /\ Terminated) => Outcome = returned[1]

\* The second call returned two function reports, with the line cache
\* still holding what the first call read.
C17_Witness ==
    /\ returned # << >>
    /\ pc = "done"
    /\ Len(retval["functions"]) = 2
    /\ returned[1].kind = "return"
    /\ cache # << >>

\* C18: the calls of show_func for the keys of stats, run in any
\* interleaving and their results arranged in sorted-key order, end as the
\* sequential build ended: the same report when it returned one, an
\* exception when it raised.
C18_AnyInterleavingGivesSequentialReport ==
    pc \in {"arranged", "par_raised"}
    => IF returned[1].kind = "return"
       THEN pc = "arranged" /\ retval = returned[1].val
       ELSE pc = "par_raised"

\* C19: show_json on an empty stats mapping does not raise, and returns a
\* report whose 'functions' list is empty and which has its 'Timer unit'.
C19_EmptyStatsGivesEmptyReport ==
    stats = << >>
    => /\ pc # "raised"
       /\ pc = "done"
          => /\ DOMAIN retval = {"Timer unit", "functions"}
             /\ retval["functions"] = << >>
             /\ Len(retval["Timer unit"]) > 0

C19_Witness == stats = << >> /\ pc = "done"

\* The place in timings of the last sample of a line.
LastIndexOf(timings, lineno) ==
    SetMax({i \in 1..Len(timings) : timings[i][1] = lineno})

\* C20: the row of a line that has samples shows the hits and the time of
\* the last sample of that line, while 'Total time' and the percents are
\* taken against the sum of the times of all samples.
C20_LastSampleOfLineIsShown ==
    Emitted
    => /\ TheReport["Total time"]
             = FmtG(TimesUnit(SampleTimeSum(TheTimings), unit)) \o " s"
       /\ \A r \in 1..Len(TheReport["lines"]) :
             LET row == TheReport["lines"][r]
             IN  row["Line #"] \in LinenoSet(TheTimings)
                 => LET last == TheTimings[LastIndexOf(TheTimings,
                                                       row["Line #"])]
                    IN  /\ row["Hits"] = PyInt(last[2])
                        /\ row["Time"] = PyInt(last[3])
                        /\ 2 * Abs(1000 * last[3]
                                   - Tenths(row["% Time"])
                                     * SampleTimeSum(TheTimings))
                              <= SampleTimeSum(TheTimings)

\* Two samples of line 10 that differ: the row shows the second, which is
\* two thirds of the total of both.
C20_Witness ==
    /\ Emitted
    /\ TheTimings = << <<10, 2, 1>>, <<10, 3, 2>> >>
    /\ TheReport["Total time"] = "3e-06 s"
    /\ TheReport["lines"][1]["Hits"] = PyInt(3)
    /\ TheReport["lines"][1]["Time"] = PyInt(2)
    /\ TheReport["lines"][1]["% Time"] = " 66.7"

\* The keys parse_argument accepts in each script.
Whitelist ==
    IF component = "flake8" THEN {"git-url", "version", "out-put-type"}
    ELSE {"git-url", "entry-file", "version", "out-put-type"}

\* The place of the first c in s at or after from, Len(s) + 1 if none.
IndexOf(s, c, from) ==
    LET RECURSIVE At(_)
        At(i) == IF i > Len(s) \/ Char(s, i) = c THEN i ELSE At(i + 1)
    IN  At(from)

HasEq(s) == IndexOf(s, "=", 1) <= Len(s)

\* The text before the first '='.
KeyOf(s) == SubSeq(s, 1, IndexOf(s, "=", 1) - 1)

\* The text between the first '=' and the second '=' (or the end).
ValueOf(s) ==
    SubSeq(s, IndexOf(s, "=", 1) + 1,
           IndexOf(s, "=", IndexOf(s, "=", 1) + 1) - 1)

\* The space-separated tokens of CO_DATA, stripped.
DataTokens ==
    IF data.isset
    THEN [i \in 1..Len(Split(data.val, " ")) |->
             Strip(Split(data.val, " ")[i])]
    ELSE << >>

\* The token is key=value with a key of the whitelist.
Accepted(s) == HasEq(s) /\ KeyOf(s) \in Whitelist

Rejected(s) == s # "" /\ ~Accepted(s)

\* The place of the last accepted token of key k.
LastTokenOf(k) ==
    SetMax({i \in 1..Len(DataTokens) :
               Accepted(DataTokens[i]) /\ KeyOf(DataTokens[i]) = k})

Parsed == mpc = "git_url"

\* C25: the keys parse_argument returns are keys of the whitelist; they
\* are exactly the keys of the accepted tokens, each with the value of its
\* last accepted token; every other non-empty token is printed as
\* 'Unknown Parameter' and adds nothing; an unset or empty CO_DATA gives
\* the empty mapping.
C25_ArgumentsAreWhitelisted ==
    Parsed
    => /\ DOMAIN argv \subseteq Whitelist
       /\ DOMAIN argv
             = {KeyOf(DataTokens[i]) :
                   i \in {j \in 1..Len(DataTokens) : Accepted(DataTokens[j])}}
       /\ \A k \in DOMAIN argv : argv[k] = ValueOf(DataTokens[LastTokenOf(k)])
       /\ printed
             = [i \in 1..Len(SelectSeq(DataTokens, Rejected)) |->
                   Line("stdout",
                        "[COUT] Unknown Parameter: ["
                        \o SelectSeq(DataTokens, Rejected)[i] \o "]")]
       /\ (~data.isset \/ data.val = "") => DOMAIN argv = {}

\* Two values for git-url around an unknown key: the later value is kept
\* and one line is printed.
C25_Witness ==
    /\ Parsed
    /\ data.val = "git-url=v?a=b foo=1 git-url=u"
    /\ DOMAIN argv = {"git-url"}
    /\ argv["git-url"] = "u"
    /\ Len(printed) = 1

\* C26: the value stored for an accepted token is the text between its
\* first '=' and its second '=': it holds no '=', and what follows a
\* second '=' is dropped.
C26_ValueStopsAtSecondEquals ==
    Parsed
    => \A k \in DOMAIN argv :
          LET s == DataTokens[LastTokenOf(k)]
              v == argv[k]
          IN  /\ ~HasEq(v)
              /\ StartsWith(s, k \o "=" \o v)
              /\ \/ Len(s) = Len(k) + 1 + Len(v)
                 \/ Char(s, Len(k) + 2 + Len(v)) = "="

\* A git-url with a query string loses its '=b'.
C26_Witness ==
    /\ Parsed
    /\ data.val = "git-url=v?a=b"
    /\ argv["git-url"] = "v?a"

\* A line that reports the result of the run, and the two such lines.
IsResultLine(l) == l.fd = "stdout" /\ StartsWith(l.text, "[COUT] CO_RESULT = ")

SaysTrue(l) == l.fd = "stdout" /\ l.text = "[COUT] CO_RESULT = true"

SaysFalse(l) == l.fd = "stdout" /\ l.text = "[COUT] CO_RESULT = false"

ResultLines == {i \in 1..Len(printed) : IsResultLine(printed[i])}

\* main() has returned; main() was left by an exception.
MainReturned == mpc = "returned"

MainRaised == mpc = "raised"

\* C21: a run of main() that returns has printed exactly one
\* '[COUT] CO_RESULT = ...' line, and it is the last line printed; no run
\* ever prints two.
C21_OneResultLineLast ==
    /\ Cardinality(ResultLines) <= 1
    /\ MainReturned => ResultLines = {Len(printed)}

\* The run that profiled: the content line, then the result line.
C21_Witness ==
    /\ MainReturned
    /\ Len(printed) >= 2
    /\ printed[Len(printed) - 1].text = "[COUT] CO_JSON_CONTENT"
    /\ SaysTrue(printed[Len(printed)])

\* The git-url is absent or empty, or the version is not a valid one.
ChecksFail ==
    \/ "git-url" \notin DOMAIN argv
    \/ argv["git-url"] = ""
    \/ /\ "version" \in DOMAIN argv
       /\ argv["version"] \notin {"python", "python2", "python3", "py3k"}

\* C22: no command is run unless the git-url is non-empty and the version
\* is valid; a run whose git-url or version check fails returns with
\* CO_RESULT = false as its last line and has run no command.
C22_NoCommandBeforeChecks ==
    /\ ChecksFail => ran = << >>
    /\ (ChecksFail /\ mpc \notin {"parse_argument", "git_url", "version"})
       => /\ MainReturned
          /\ printed # << >>
          /\ SaysFalse(printed[Len(printed)])

\* A run with a git-url and the version jython.
C22_Witness ==
    /\ MainReturned
    /\ "git-url" \in DOMAIN argv
    /\ argv["git-url"] = "u"
    /\ argv["version"] = "jython"
    /\ ran = << >>
    /\ SaysFalse(printed[Len(printed)])

\* The stage of a command: 1 the installation of the tool, 2 the clone,
\* 3 an installation of dependencies, 4 the profiler.
StageOf(cmd) ==
    IF cmd[1] = "git" THEN 2
    ELSE IF cmd[1] = "kernprof" THEN 4
    ELSE IF Len(cmd) >= 3 /\ cmd[1] \in {"pip", "pip3"} /\ cmd[3] # "-r" THEN 1
    ELSE 3

StagesRun == {StageOf(ran[i]) : i \in 1..Len(ran)}

\* C23: the commands run in the order tool installation, clone,
\* dependency installations, profiler; dependencies and profiler only after
\* a clone of exit code 0; the clone only with an entry-file, after the
\* tool installation; a run without entry-file installs the tool and
\* returns with CO_RESULT = false, without a clone.
C23_StagesInOrder ==
    /\ \A i, j \in 1..Len(ran) : i < j => StageOf(ran[i]) <= StageOf(ran[j])
    /\ ran # << >> => StageOf(ran[1]) = 1
    /\ (StagesRun \cap {3, 4} # {}) => (2 \in StagesRun /\ world.clone_rc = 0)
    /\ 2 \in StagesRun
       => ("entry-file" \in DOMAIN argv /\ argv["entry-file"] # "")
    /\ (MainReturned /\ ~ChecksFail
        /\ ("entry-file" \notin DOMAIN argv \/ argv["entry-file"] = ""))
       => /\ Len(ran) = 1
          /\ SaysFalse(printed[Len(printed)])

\* A run through all four stages.
C23_Witness ==
    /\ MainReturned
    /\ StagesRun = {1, 2, 3, 4}

\* The clone has run with exit code 0.
Cloned == 2 \in StagesRun /\ world.clone_rc = 0

\* C24: a run whose clone succeeded returns, whatever the installations
\* of dependencies answer, with the profiler run and a last line that is
\* CO_RESULT = true when kernprof exited with 0 and CO_RESULT = false
\* otherwise.
C24_ResultFollowsToolExitStatus ==
    (Cloned /\ (MainReturned \/ MainRaised))
    => /\ MainReturned
       /\ 4 \in StagesRun
       /\ IF world.kernprof_rc = 0
          THEN SaysTrue(printed[Len(printed)])
          ELSE SaysFalse(printed[Len(printed)])

\* The files of the walk whose names end with '.py'.
IsPy(f) ==
    Len(f.name) >= 3 /\ SubSeq(f.name, Len(f.name) - 2, Len(f.name)) = ".py"

PyFiles == SelectSeq(world.files, IsPy)

\* The flake8 commands run so far.
IsFlake8(cmd) == cmd[1] = "flake8"

\* C27: a run of the flake8 script that returns after a clone of exit code
\* 0 has run flake8 once on every '.py' file of the walk, in the order of
\* the walk, and ends with CO_RESULT = true when flake8 exited with 0 for
\* each of them (so also when there is none) and with CO_RESULT = false
\* otherwise.
C27_Flake8OnEveryPyFile ==
    (MainReturned /\ Len(ran) >= 2 /\ world.clone_rc = 0)
    => /\ SelectSeq(ran, IsFlake8)
             = [i \in 1..Len(PyFiles) |->
                   << "flake8", PyFiles[i].root \o "/" \o PyFiles[i].name >>]
       /\ IF \A i \in 1..Len(PyFiles) : PyFiles[i].rc = 0
          THEN SaysTrue(printed[Len(printed)])
          ELSE SaysFalse(printed[Len(printed)])

\* Two '.py' files, the first of which fails: flake8 ran on both.
C27_Witness ==
    /\ MainReturned
    /\ world.clone_rc = 0
    /\ Len(PyFiles) = 2
    /\ PyFiles[1].rc = 1
    /\ PyFiles[2].rc = 0
    /\ Len(SelectSeq(ran, IsFlake8)) = 2
    /\ SaysFalse(printed[Len(printed)])

=============================================================================
